---- MODULE Spec2Model ----
(***************************************************************************)
(* Model of the blurt notification daemon (src/src/daemon.rs) and of the   *)
(* record table it polls (src/src/database.rs).                            *)
(*                                                                         *)
(* Option<T> is modelled as a set with at most one element:                *)
(*   None == {}    Some(x) == {x}                                          *)
(***************************************************************************)
EXTENDS Integers, Sequences, FiniteSets, TLC

\* ------------------------------------------------------------------ bounds
\* Largest ROWID the record table may hold in the model.
MaxRowId == 3
\* Number of rows ever inserted in one behaviour.
MaxInserts == 2
\* Real-valued "date" fields range over -MaxHalves/2 .. MaxHalves/2 in steps of 1/2.
MaxHalves == 3

None == {}
Some(x) == {x}
Unwrap(o) == CHOOSE x \in o : TRUE

\* --------------------------------------------------------- plist::Value
\* A plist value: one record shape for every variant, unused fields defaulted.
\* A Real r is stored as the integer 2*r (halves), so 1.5 is n = 3.
NoDict == [k \in {} |-> 0]
VString(str) == [type |-> "string", s |-> str, n |-> 0, d |-> NoDict]
VReal(halves) == [type |-> "real", s |-> "", n |-> halves, d |-> NoDict]
VInteger(i) == [type |-> "integer", s |-> "", n |-> i, d |-> NoDict]
VDictionary(dict) == [type |-> "dict", s |-> "", n |-> 0, d |-> dict]

\* Value::as_string / Value::as_real as used by the decoder.
as_string(v) == IF v.type = "string" THEN Some(v.s) ELSE None
as_real(v) == IF v.type = "real" THEN Some(v.n) ELSE None
\* Dictionary::get
get(dict, key) == IF key \in DOMAIN dict THEN Some(dict[key]) ELSE None

\* Rust `f64 as i64` on a value given in halves: truncation toward zero.
AsI64(halves) == IF halves >= 0 THEN halves \div 2 ELSE -((-halves) \div 2)

\* All dictionaries over a subset of `keys` with values in `vals`.
Dicts(keys, vals) == UNION {[K -> vals] : K \in SUBSET keys}

\* --------------------------------------------------- the payload decoder
\* daemon.rs:207-210
ExtractBundleId(dict) ==
    IF get(dict, "app") # None THEN as_string(Unwrap(get(dict, "app"))) ELSE None

\* daemon.rs:213-218
ExtractDate(dict) ==
    IF get(dict, "date") # None /\ as_real(Unwrap(get(dict, "date"))) # None
    THEN AsI64(Unwrap(as_real(Unwrap(get(dict, "date")))))
    ELSE 0

\* daemon.rs:221-222: the nested request dictionary, when present and a dictionary
ReqDict(dict) ==
    IF get(dict, "req") # None /\ Unwrap(get(dict, "req")).type = "dict"
    THEN Some(Unwrap(get(dict, "req")).d)
    ELSE None

\* daemon.rs:224-239: a string field of the nested request dictionary
ReqString(dict, key) ==
    IF ReqDict(dict) # None /\ get(Unwrap(ReqDict(dict)), key) # None
    THEN as_string(Unwrap(get(Unwrap(ReqDict(dict)), key)))
    ELSE None

OrEmpty(o) == IF o # None THEN Unwrap(o) ELSE ""

\* Faulty variant of NotificationId: the id is read from the payload's "id".
IdFromPayload(dict, rowid) ==
    IF get(dict, "id") # None THEN Unwrap(get(dict, "id")).n ELSE rowid
\* daemon.rs:244: the id given to the Notification
NotificationId(dict, rowid) == rowid

\* Faulty variant of parse_notification_from_plist: any top level is accepted.
ParseTopLevelAny(plist_value, rowid) ==
    Some([id |-> NotificationId(plist_value.d, rowid),
          title |-> OrEmpty(ReqString(plist_value.d, "titl")),
          subtitle |-> ReqString(plist_value.d, "subt"),
          body |-> OrEmpty(ReqString(plist_value.d, "body")),
          date |-> ExtractDate(plist_value.d),
          bundle_id |-> ExtractBundleId(plist_value.d)])
\* daemon.rs:195-254
parse_notification_from_plist(plist_value, rowid) ==
    IF plist_value.type = "dict"
    THEN Some([id |-> NotificationId(plist_value.d, rowid),
               title |-> OrEmpty(ReqString(plist_value.d, "titl")),
               subtitle |-> ReqString(plist_value.d, "subt"),
               body |-> OrEmpty(ReqString(plist_value.d, "body")),
               date |-> ExtractDate(plist_value.d),
               bundle_id |-> ExtractBundleId(plist_value.d)])
    ELSE None

\* The stored blob: either bytes plist::from_bytes rejects, or the binary
\* encoding of a value. daemon.rs:149
Garbage == [ok |-> FALSE, value |-> VString("")]
Encoded(v) == [ok |-> TRUE, value |-> v]
from_bytes(bytes) == IF bytes.ok THEN Some(bytes.value) ELSE None

\* daemon.rs:149-187: the arm of the loop body one row's bytes end in
DecodeArm(bytes, rowid) ==
    IF from_bytes(bytes) = None THEN "not_plist"
    ELSE IF parse_notification_from_plist(Unwrap(from_bytes(bytes)), rowid) = None
    THEN "not_structured"
    ELSE "parsed"

\* daemon.rs:149-187: what the loop body makes of one row's bytes
Decode(bytes, rowid) ==
    IF from_bytes(bytes) # None
    THEN parse_notification_from_plist(Unwrap(from_bytes(bytes)), rowid)
    ELSE None


\* --------------------------------------------------------------- inputs
\* Blobs the other process stores in record.data in the daemon model: bytes
\* that are no plist, a plist whose top level is a string, and a full
\* dictionary that also carries a key named "id".
FullDict == [app |-> VString("com.test.app"), date |-> VReal(3), id |-> VInteger(0),
             req |-> VDictionary([titl |-> VString("Test Title"),
                                  body |-> VString("Test Body")])]
Blobs == {Garbage, Encoded(VString("x")), Encoded(VDictionary(FullDict))}
\* The table as the daemon may find it when it is constructed.
InitialTables ==
    {{}} \cup {{[rowid |-> id, data |-> Encoded(VDictionary(FullDict)), inst |-> 0]} :
                id \in {1, MaxRowId}}

\* Inputs of the decoder specification.
Leaves == {VString("a"), VString("b"), VInteger(7)}
ReqValues == {VString("a")} \cup {VDictionary(d) : d \in Dicts({"titl", "subt", "body"}, Leaves)}
DateValues == {VReal(h) : h \in -MaxHalves..MaxHalves} \cup {VInteger(7), VString("a")}
Opt(S) == {None} \cup {Some(v) : v \in S}
MkDict(app, date, req, id) ==
    [k \in ({"app" : x \in app} \cup {"date" : x \in date}
            \cup {"req" : x \in req} \cup {"id" : x \in id}) |->
        CASE k = "app" -> Unwrap(app)
          [] k = "date" -> Unwrap(date)
          [] k = "req" -> Unwrap(req)
          [] k = "id" -> Unwrap(id)]
TopDicts == {MkDict(a, dt, r, i) : a \in Opt(Leaves), dt \in Opt(DateValues),
                                   r \in Opt(ReqValues), i \in Opt({VInteger(0)})}
DecoderInputs == {Garbage} \cup {Encoded(v) : v \in Leaves \cup {VReal(1)}}
                 \cup {Encoded(VDictionary(d)) : d \in TopDicts}

\* ---------------------------------------------------------------- state
VARIABLES
    fileExists,       \* the database file is there (database.rs:55-57)
    webhook_url,      \* NotificationDaemon.webhook_url (daemon.rs:17)
    record,           \* the rows of table record: [rowid, data, inst]
    last_rowid,       \* NotificationDaemon.last_rowid (daemon.rs:15)
    pc,               \* where the daemon's single task stands
    max_rowid,        \* check_for_new_notifications: max_rowid (daemon.rs:85)
    site,             \* which call of query_new_notifications is running
    arg_last_rowid,   \* query_new_notifications: parameter last_rowid
    new_records,      \* query_new_notifications: new_records (daemon.rs:124)
    idx,              \* position of the for loop of daemon.rs:142
    actual_max_rowid, \* query_new_notifications: actual_max_rowid
    notification,     \* the Notification being forwarded (daemon.rs:168)
    local_last_rowid, \* check_for_new_notifications: last_rowid (daemon.rs:100)
    nInserts,         \* history: rows inserted so far (names the row instances)
    emitted,          \* history: every row parsed and printed, as [inst, rowid]
    pollEmitted,      \* history: the rows this poll printed, with their Notification
    posts,            \* history: this poll's webhook POSTs and their outcomes
    prevW,            \* history: last_rowid when the running poll began
    snap,             \* history: the table as this poll's latest query read it
    seenInserts,      \* history: nInserts at the latest query of any poll
    prevSeenInserts,  \* history: nInserts at the previous poll's last query
    midPollChange,    \* history: the table changed between this poll's two queries
    ioError,          \* history: the store operation that failed, if any
    polled,           \* history: a poll returned Ok before the running one began
    arg_bytes,        \* decoder specification: the bytes given
    arg_rowid,        \* decoder specification: the row id given
    ret,              \* decoder specification: what came back
    dpc               \* decoder specification: before or after the call

daemonVars == <<last_rowid, pc, max_rowid, site, arg_last_rowid, new_records,
                idx, actual_max_rowid, notification, local_last_rowid>>
histVars == <<emitted, pollEmitted, posts, prevW, ioError, polled>>
changeVars == <<snap, seenInserts, prevSeenInserts, midPollChange>>
storeVars == <<fileExists, record, nInserts>>
decVars == <<arg_bytes, arg_rowid, ret, dpc>>
vars == <<webhook_url, daemonVars, histVars, changeVars, storeVars, decVars>>

\* ------------------------------------------------------------ the store
RowIds(rows) == {r.rowid : r \in rows}
MaxOf(S) == CHOOSE x \in S : \A y \in S : y <= x

\* SELECT MAX(ROWID) FROM record  (daemon.rs:86-88): NULL on an empty table
SelectMaxRowid(rows) == IF rows = {} THEN None ELSE Some(MaxOf(RowIds(rows)))

\* Faulty variant of OrderAsc: ORDER BY ROWID DESC
RECURSIVE OrderDesc(_)
OrderDesc(rows) ==
    IF rows = {} THEN <<>>
    ELSE LET first == CHOOSE r \in rows : \A o \in rows : r.rowid >= o.rowid
         IN <<first>> \o OrderDesc(rows \ {first})

RECURSIVE OrderAsc(_)
OrderAsc(rows) ==
    IF rows = {} THEN <<>>
    ELSE LET first == CHOOSE r \in rows : \A o \in rows : r.rowid <= o.rowid
         IN <<first>> \o OrderAsc(rows \ {first})

\* Faulty variant of SelectAfter: WHERE ROWID >= ?
SelectFrom(rows, after) == OrderAsc({r \in rows : r.rowid >= after})
\* SELECT ROWID, data FROM record WHERE ROWID > ? ORDER BY ROWID ASC  (daemon.rs:125-135)
SelectAfter(rows, after) == OrderAsc({r \in rows : r.rowid > after})

\* ------------------------------------------------------------ the daemon
\* Faulty variant of OnStoreError: the loop sleeps and polls again.
StoreErrorRetries == "sleep"
\* daemon.rs:64: `?` on the poll's result ends monitor_notifications and start
OnStoreError == "exit_err"

\* Faulty variant of InitialRowid: the first run starts from 0.
InitialRowidZero(max_id) == 0
\* daemon.rs:95: the first run takes the current maximum as the watermark
InitialRowid(max_id) == max_id

\* Faulty variant of EmptyTableRowid: an empty table forgets the watermark.
EmptyTableResets(last) == None
\* daemon.rs:113-115: an empty table leaves last_rowid alone
EmptyTableRowid(last) == last

\* Faulty variant of HasNewRecords: an unchanged maximum is queried too.
HasNewOrSameRecords(max_id, last) == max_id >= last
\* daemon.rs:103: "If there are new records"
HasNewRecords(max_id, last) == max_id > last

\* Faulty variant of GrowthArg: the query starts from the maximum just read.
GrowthFromMax(max_id, last) == max_id
\* daemon.rs:104: new records are queried from the old watermark
GrowthArg(max_id, last) == last

\* Faulty variant of ShrinkArg: after a decrease the query takes in the row
\* that holds the current maximum.
ShrinkIncludesMax(max_id, last) == max_id - 1
\* Faulty variant of ShrinkArg: after a decrease the query still starts from
\* the old watermark.
ShrinkKeepsWatermark(max_id, last) == last
\* Faulty variant of ShrinkArg: after a decrease everything is queried again.
ShrinkFromZero(max_id, last) == 0
\* daemon.rs:109: after a decrease the query starts from the current maximum
ShrinkArg(max_id, last) == max_id

\* Faulty variant of TrackRowid: only parsed rows move the maximum seen.
TrackParsedOnly(actual, rowid, parsed) == IF parsed THEN rowid ELSE actual
\* daemon.rs:146: every row visited becomes the maximum seen, parsed or not
TrackRowid(actual, rowid, parsed) == rowid

\* Faulty variant of AfterForward: a failed POST ends the process.
ForwardErrorPropagates(ok) == IF ok THEN "for" ELSE "exit_err"
\* daemon.rs:168-172: a failed POST is printed and the loop goes on
AfterForward(ok) == "for"

\* Faulty variant of NewMaxRowid: the watermark becomes the maximum read earlier.
NewMaxRowidFromMax(returned, max_id) == max_id
\* daemon.rs:104-105, 109-110: the watermark becomes what the query returned
NewMaxRowid(returned, max_id) == returned

InitDaemon ==
    /\ fileExists \in BOOLEAN
    /\ webhook_url \in {None, Some("url")}
    /\ record \in (IF fileExists THEN InitialTables ELSE {{}})
    /\ nInserts = 0
    /\ last_rowid = None
    /\ pc = "new"
    /\ max_rowid = None
    /\ local_last_rowid = 0
    /\ site = "none"
    /\ arg_last_rowid = None
    /\ new_records = <<>>
    /\ idx = 0
    /\ actual_max_rowid = 0
    /\ notification = None
    /\ emitted = <<>>
    /\ pollEmitted = <<>>
    /\ posts = <<>>
    /\ prevW = None
    /\ snap = {}
    /\ seenInserts = 0
    /\ prevSeenInserts = 0
    /\ midPollChange = FALSE
    /\ ioError = "none"
    /\ polled = FALSE

Init ==
    /\ InitDaemon
    /\ arg_bytes = Garbage
    /\ arg_rowid = 0
    /\ ret = [arm |-> "none", n |-> None]
    /\ dpc = "idle"

\* Faulty variant of ExistsCheck: the loop is entered whether the file is there or not.
ExistsCheckSkipped(exists) == "check"
\* daemon.rs:45-48, 55: start returns an error unless the database file exists
ExistsCheck(exists) == IF exists THEN "check" ELSE "exit_err"

\* daemon.rs:42-56
Start ==
    /\ pc = "new"
    /\ pc' = ExistsCheck(fileExists)
    /\ UNCHANGED <<last_rowid, max_rowid, site, arg_last_rowid, new_records, idx,
                   actual_max_rowid, notification, local_last_rowid>>
    /\ UNCHANGED <<webhook_url, histVars, changeVars, storeVars, decVars>>

\* daemon.rs:82 (database.rs:42-51): a poll begins by opening the connection
Connect ==
    /\ pc = "check"
    /\ prevW' = last_rowid
    /\ pollEmitted' = <<>>
    /\ posts' = <<>>
    /\ snap' = {}
    /\ prevSeenInserts' = seenInserts
    /\ seenInserts' = seenInserts
    /\ midPollChange' = FALSE
    /\ max_rowid' = None
    /\ local_last_rowid' = 0
    /\ site' = "none"
    /\ arg_last_rowid' = None
    /\ new_records' = <<>>
    /\ idx' = 0
    /\ actual_max_rowid' = 0
    /\ \E ok \in BOOLEAN :
        IF ok
        THEN pc' = "max_query" /\ ioError' = ioError
        ELSE pc' = OnStoreError /\ ioError' = "open"
    /\ UNCHANGED <<last_rowid, notification, emitted, polled>>
    /\ UNCHANGED <<webhook_url, storeVars, decVars>>

\* daemon.rs:85-119: the MAX(ROWID) query and the match on its result
MaxQuery ==
    /\ pc = "max_query"
    /\ \E ok \in BOOLEAN :
        IF ~ok
        THEN /\ pc' = OnStoreError
             /\ ioError' = "max"
             /\ UNCHANGED <<last_rowid, max_rowid, site, arg_last_rowid,
                            local_last_rowid, snap, seenInserts>>
        ELSE LET m == SelectMaxRowid(record) IN
             /\ max_rowid' = m
             /\ snap' = record
             /\ seenInserts' = nInserts
             /\ ioError' = ioError
             /\ IF m = None
                THEN /\ last_rowid' = EmptyTableRowid(last_rowid)
                     /\ pc' = "sleep"
                     /\ UNCHANGED <<site, arg_last_rowid, local_last_rowid>>
                ELSE IF last_rowid = None
                THEN /\ last_rowid' = Some(InitialRowid(Unwrap(m)))
                     /\ pc' = "sleep"
                     /\ UNCHANGED <<site, arg_last_rowid, local_last_rowid>>
                ELSE /\ local_last_rowid' = Unwrap(last_rowid)
                     /\ last_rowid' = last_rowid
                     /\ IF HasNewRecords(Unwrap(m), Unwrap(last_rowid))
                        THEN /\ site' = "growth"
                             /\ arg_last_rowid' = Some(GrowthArg(Unwrap(m), Unwrap(last_rowid)))
                             /\ pc' = "rows_query"
                        ELSE IF Unwrap(m) < Unwrap(last_rowid)
                        THEN /\ site' = "shrink"
                             /\ arg_last_rowid' = Some(ShrinkArg(Unwrap(m), Unwrap(last_rowid)))
                             /\ pc' = "rows_query"
                        ELSE /\ pc' = "sleep"
                             /\ UNCHANGED <<site, arg_last_rowid>>
    /\ UNCHANGED <<new_records, idx, actual_max_rowid, notification>>
    /\ UNCHANGED <<emitted, pollEmitted, posts, prevW, polled, prevSeenInserts, midPollChange>>
    /\ UNCHANGED <<webhook_url, storeVars, decVars>>

\* daemon.rs:124-139: the rows query of query_new_notifications
RowsQuery ==
    /\ pc = "rows_query"
    /\ \E ok \in BOOLEAN :
        IF ~ok
        THEN /\ pc' = OnStoreError
             /\ ioError' = "rows"
             /\ UNCHANGED <<new_records, idx, actual_max_rowid, snap, seenInserts>>
        ELSE /\ new_records' = SelectAfter(record, Unwrap(arg_last_rowid))
             /\ snap' = record
             /\ seenInserts' = nInserts
             /\ actual_max_rowid' = Unwrap(arg_last_rowid)
             /\ idx' = 1
             /\ pc' = "for"
             /\ ioError' = ioError
    /\ UNCHANGED <<last_rowid, max_rowid, site, arg_last_rowid, notification,
                   local_last_rowid>>
    /\ UNCHANGED <<emitted, pollEmitted, posts, prevW, polled, prevSeenInserts, midPollChange>>
    /\ UNCHANGED <<webhook_url, storeVars, decVars>>

\* daemon.rs:142-188: one turn of the for loop, up to the POST if there is one
LoopBody ==
    /\ pc = "for"
    /\ idx <= Len(new_records)
    /\ LET row == new_records[idx]
           parsed == Decode(row.data, row.rowid)
       IN /\ actual_max_rowid' = TrackRowid(actual_max_rowid, row.rowid, parsed # None)
          /\ IF parsed # None
             THEN /\ emitted' = Append(emitted, [inst |-> row.inst, rowid |-> row.rowid])
                  /\ pollEmitted' = Append(pollEmitted, [row |-> row, n |-> Unwrap(parsed)])
                  /\ IF webhook_url # None
                     THEN pc' = "forward" /\ notification' = parsed /\ idx' = idx
                     ELSE pc' = "for" /\ notification' = None /\ idx' = idx + 1
             ELSE /\ UNCHANGED <<emitted, pollEmitted>>
                  /\ pc' = "for" /\ notification' = None /\ idx' = idx + 1
    /\ UNCHANGED <<last_rowid, max_rowid, site, arg_last_rowid, new_records,
                   local_last_rowid>>
    /\ UNCHANGED <<posts, prevW, ioError, polled>>
    /\ UNCHANGED <<webhook_url, changeVars, storeVars, decVars>>

\* daemon.rs:168-172, 258-266: the POST comes back, with or without an error,
\* or the server never answers: the Client of line 259 is built with no
\* timeout, so the await of line 262 then never returns
Forward ==
    /\ pc = "forward"
    /\ \/ \E ok \in BOOLEAN :
            /\ posts' = Append(posts, [inst |-> new_records[idx].inst,
                                       body |-> Unwrap(notification), ok |-> ok])
            /\ pc' = AfterForward(ok)
            /\ notification' = None
            /\ idx' = idx + 1
       \/ /\ pc' = "hung"
          /\ UNCHANGED <<posts, notification, idx>>
    /\ UNCHANGED <<last_rowid, max_rowid, site, arg_last_rowid, new_records,
                   actual_max_rowid, local_last_rowid>>
    /\ UNCHANGED <<emitted, pollEmitted, prevW, ioError, polled>>
    /\ UNCHANGED <<webhook_url, changeVars, storeVars, decVars>>

\* daemon.rs:190, then 105-111 and 118: the query returns and the poll ends
QueryReturn ==
    /\ pc = "for"
    /\ idx > Len(new_records)
    /\ last_rowid' = Some(NewMaxRowid(actual_max_rowid, Unwrap(max_rowid)))
    /\ IF site = "growth" /\ Unwrap(max_rowid) < local_last_rowid
       THEN /\ site' = "shrink"
            /\ arg_last_rowid' = Some(ShrinkArg(Unwrap(max_rowid), local_last_rowid))
            /\ pc' = "rows_query"
       ELSE /\ pc' = "sleep"
            /\ UNCHANGED <<site, arg_last_rowid>>
    /\ UNCHANGED <<max_rowid, new_records, idx, actual_max_rowid, notification,
                   local_last_rowid>>
    /\ UNCHANGED <<webhook_url, histVars, changeVars, storeVars, decVars>>

\* daemon.rs:67
Sleep ==
    /\ pc = "sleep"
    /\ pc' = "check"
    /\ polled' = TRUE
    /\ UNCHANGED <<last_rowid, max_rowid, site, arg_last_rowid, new_records, idx,
                   actual_max_rowid, notification, local_last_rowid>>
    /\ UNCHANGED <<emitted, pollEmitted, posts, prevW, ioError>>
    /\ UNCHANGED <<webhook_url, changeVars, storeVars, decVars>>

\* ------------------------------------------- the process writing the table
NewRow(id, data) == [rowid |-> id, data |-> data, inst |-> nInserts + 1]

\* History of a change of the table: did it fall between a poll's two queries?
NoteChange ==
    /\ midPollChange' = (midPollChange \/ pc = "rows_query")
    /\ UNCHANGED <<snap, seenInserts, prevSeenInserts>>

\* database.rs:77-93: INSERT without rec_id, SQLite gives MAX(ROWID)+1
InsertAuto ==
    /\ fileExists
    /\ nInserts < MaxInserts
    /\ LET id == IF record = {} THEN 1 ELSE MaxOf(RowIds(record)) + 1 IN
       /\ id <= MaxRowId
       /\ \E data \in Blobs :
            /\ record' = record \cup {NewRow(id, data)}
            /\ NoteChange
    /\ nInserts' = nInserts + 1
    /\ UNCHANGED <<fileExists, webhook_url, daemonVars, histVars, decVars>>

\* tests/e2e_test.rs:42-75: INSERT with a rec_id of the writer's choice
InsertExplicit ==
    /\ fileExists
    /\ nInserts < MaxInserts
    /\ \E id \in (1..MaxRowId) \ RowIds(record), data \in Blobs :
        /\ record' = record \cup {NewRow(id, data)}
        /\ NoteChange
    /\ nInserts' = nInserts + 1
    /\ UNCHANGED <<fileExists, webhook_url, daemonVars, histVars, decVars>>

\* daemon.rs:73-75: the user dismisses a notification, its row is deleted
Dismiss ==
    /\ \E r \in record : record' = record \ {r}
    /\ NoteChange
    /\ UNCHANGED <<fileExists, nInserts, webhook_url, daemonVars, histVars, decVars>>

\* tests/e2e_test.rs:174-178: DELETE FROM record
DeleteAll ==
    /\ Cardinality(record) >= 2
    /\ record' = {}
    /\ NoteChange
    /\ UNCHANGED <<fileExists, nInserts, webhook_url, daemonVars, histVars, decVars>>

Next ==
    \/ Start
    \/ Connect
    \/ MaxQuery
    \/ RowsQuery
    \/ LoopBody
    \/ Forward
    \/ QueryReturn
    \/ Sleep
    \/ InsertAuto
    \/ InsertExplicit
    \/ Dismiss
    \/ DeleteAll

Spec == Init /\ [][Next]_vars

\* The daemon is one task on the tokio runtime (main.rs:8, daemon.rs:59-69):
\* whenever it can take its next step it does. The process writing the table
\* is under no such obligation.
Fairness ==
    /\ WF_vars(Start)
    /\ WF_vars(Connect)
    /\ WF_vars(MaxQuery)
    /\ WF_vars(RowsQuery)
    /\ WF_vars(LoopBody)
    /\ WF_vars(Forward)
    /\ WF_vars(QueryReturn)
    /\ WF_vars(Sleep)

SpecLive == Spec /\ Fairness

\* ------------------------------------------- the decoder on its own
\* Bounded inputs for the decoding step of daemon.rs:149-152.
InitDecode ==
    /\ InitDaemon
    /\ fileExists
    /\ webhook_url = None
    /\ record = {}
    /\ arg_bytes \in DecoderInputs
    /\ arg_rowid \in 1..2
    /\ ret = [arm |-> "none", n |-> None]
    /\ dpc = "call"

\* daemon.rs:149-152
DecodeCall ==
    /\ dpc = "call"
    /\ ret' = [arm |-> DecodeArm(arg_bytes, arg_rowid), n |-> Decode(arg_bytes, arg_rowid)]
    /\ dpc' = "done"
    /\ UNCHANGED <<arg_bytes, arg_rowid>>
    /\ UNCHANGED <<webhook_url, daemonVars, histVars, changeVars, storeVars>>

NextDecode == DecodeCall

SpecDecode == InitDecode /\ [][NextDecode]_vars

\* ====================================================== the properties
\* A poll has returned Ok and the loop is in its sleep; the per-poll history
\* (prevW, snap, pollEmitted, posts, new_records, site) is that poll's.
PollDone == pc = "sleep"

\* A blob that parses as a plist whose top level is a dictionary.
Decodable(data) == data.ok /\ data.value.type = "dict"

Last(seq) == seq[Len(seq)]
\* The rows printed by this poll, in the order printed.
PollRows == [i \in 1..Len(pollEmitted) |-> pollEmitted[i].row]
\* The rows of the table, as read by this poll's last query, that were inserted
\* after the previous poll's last query.
NewSince == {r \in snap : r.inst > prevSeenInserts}
\* The decodable rows among those the rows query returned, in the order returned.
DecodableReturned == SelectSeq(new_records, LAMBDA r : Decodable(r.data))

\* C1: a poll that starts with last_rowid = None and finds a non-empty table
\* ends with last_rowid = Some(max ROWID of the table as read), has printed
\* and posted nothing, and has not called query_new_notifications.
C1_FirstPollSuppression ==
    (PollDone /\ prevW = None /\ snap # {})
        => /\ last_rowid = Some(MaxOf(RowIds(snap)))
           /\ pollEmitted = <<>>
           /\ posts = <<>>
           /\ site = "none"
           /\ new_records = <<>>

\* C1 witness: a first poll has completed on a table of two rows.
C1_Witness ==
    PollDone /\ prevW = None /\ Cardinality(snap) = 2 /\ last_rowid # None

\* C2: when every row inserted since the previous poll's last query (and still
\* in the table at this poll's last query) has a ROWID above the watermark W
\* the previous poll left and a decodable payload, and there is at least one,
\* the poll prints exactly those rows, each once, in ascending ROWID order,
\* and leaves last_rowid at the largest of their ROWIDs.
C2_GrowthDetection ==
    (/\ PollDone
     /\ prevW # None
     /\ NewSince # {}
     /\ \A r \in NewSince : r.rowid > Unwrap(prevW) /\ Decodable(r.data))
        => /\ PollRows = OrderAsc(NewSince)
           /\ last_rowid = Some(MaxOf(RowIds(NewSince)))

\* C2 witness: a poll with a watermark has printed two newly inserted rows.
C2_Witness ==
    /\ PollDone
    /\ prevW # None
    /\ Cardinality(NewSince) = 2
    /\ \A r \in NewSince : r.rowid > Unwrap(prevW) /\ Decodable(r.data)
    /\ Len(pollEmitted) = 2

\* C3: when the table a poll reads holds a single row, inserted since the
\* previous poll's last query, with a ROWID j below the watermark, and the
\* table does not change between the poll's two queries, the poll prints and
\* posts nothing and leaves last_rowid = Some(j).
C3_ShrinkResync ==
    (/\ PollDone
     /\ prevW # None
     /\ ~midPollChange
     /\ Cardinality(snap) = 1
     /\ NewSince = snap
     /\ \A r \in snap : r.rowid < Unwrap(prevW))
        => /\ pollEmitted = <<>>
           /\ posts = <<>>
           /\ last_rowid = Some(MaxOf(RowIds(snap)))

\* C3 witness: such a poll has completed on a row with a decodable payload.
C3_Witness ==
    /\ PollDone
    /\ prevW # None
    /\ ~midPollChange
    /\ Cardinality(snap) = 1
    /\ NewSince = snap
    /\ \A r \in snap : r.rowid < Unwrap(prevW) /\ Decodable(r.data)
    /\ site = "shrink"

\* C4: no row instance is printed more than once in the life of the process.
C4_AtMostOnce ==
    \A i, j \in 1..Len(emitted) : emitted[i].inst = emitted[j].inst => i = j

\* C4 witness: two different row instances with the same ROWID have both been
\* printed; between the two the row was deleted, the watermark fell below that
\* ROWID and the ROWID was used again.
C4_Witness ==
    \E i, j \in 1..Len(emitted) :
        i < j /\ emitted[i].rowid = emitted[j].rowid /\ emitted[i].inst # emitted[j].inst

\* C5: a row whose payload does not decode is not printed and not posted, every
\* decodable row the same rows query returned is printed (and posted once in
\* webhook mode), the poll and the process do not fail for it, and last_rowid
\* ends at the ROWID of the last row returned, decodable or not.
C5_DecodeFailureIsolated ==
    /\ (PollDone /\ site # "none")
        => /\ PollRows = DecodableReturned
           /\ Len(posts) = (IF webhook_url = None THEN 0 ELSE Len(pollEmitted))
           /\ \A i \in 1..Len(posts) : posts[i].inst = pollEmitted[i].row.inst
           /\ new_records # <<>> => last_rowid = Some(Last(new_records).rowid)
    /\ (pc = "for" /\ idx > Len(new_records)) => PollRows = DecodableReturned
    /\ (pc = "exit_err" /\ fileExists) => ioError # "none"

\* C5 witness: a poll has completed whose rows query returned a decodable row
\* followed by an undecodable last row.
C5_Witness ==
    /\ PollDone
    /\ Len(new_records) = 2
    /\ Decodable(new_records[1].data)
    /\ ~Decodable(new_records[2].data)
    /\ last_rowid = Some(new_records[2].rowid)

\* C6: once opening the connection, the MAX(ROWID) query or the rows query
\* has failed, start has returned an error, and from then on the daemon takes
\* no step: no poll, no decoding, no POST, no change of last_rowid.
C6_StoreFailureFatal ==
    /\ [](ioError # "none" => pc = "exit_err")
    /\ [][pc = "exit_err" => /\ pc' = "exit_err"
                             /\ UNCHANGED <<daemonVars, histVars, snap, seenInserts>>]_vars

\* C6 witness: the rows query failed, start returned the error, and the table
\* has changed since without the daemon reading it.
C6_Witness ==
    /\ pc = "exit_err"
    /\ ioError = "rows"
    /\ record # snap
    /\ nInserts > seenInserts

\* C7: a POST that comes back, failed or not, is followed by the next turn of
\* the same for loop with last_rowid, the rows to visit and the process
\* untouched; and a poll in webhook mode ends having posted every decodable row
\* returned, with last_rowid at the last returned row's ROWID, whatever the
\* outcomes of its POSTs were.
C7_DeliveryOutcomeIgnored ==
    /\ [][(pc = "forward" /\ pc' \notin {"forward", "hung"})
            => /\ pc' = "for"
               /\ idx' = idx + 1
               /\ UNCHANGED <<last_rowid, new_records, actual_max_rowid, emitted,
                              pollEmitted, ioError>>]_vars
    /\ []((PollDone /\ webhook_url # None /\ site # "none")
            => /\ [i \in 1..Len(posts) |-> posts[i].inst]
                    = [i \in 1..Len(DecodableReturned) |-> DecodableReturned[i].inst]
               /\ last_rowid = Some(IF new_records = <<>> THEN Unwrap(arg_last_rowid)
                                    ELSE Last(new_records).rowid))

\* C7 witness: a poll has completed in which the first of two POSTs failed and
\* the second row was still posted.
C7_Witness ==
    /\ PollDone
    /\ Len(posts) = 2
    /\ ~posts[1].ok
    /\ last_rowid = Some(pollEmitted[2].row.rowid)

\* C8: a poll whose MAX(ROWID) query reads an empty table prints and posts
\* nothing and leaves last_rowid as it found it, None or Some(w).
C8_EmptyStoreNoOp ==
    (PollDone /\ site = "none" /\ snap = {})
        => /\ last_rowid = prevW
           /\ pollEmitted = <<>>
           /\ posts = <<>>
           /\ new_records = <<>>

\* C8 witness: a poll has found the table empty while last_rowid was Some(w).
C8_Witness ==
    PollDone /\ site = "none" /\ snap = {} /\ prevW # None /\ last_rowid = prevW

\* The value at `key` of `dict` when it is there with type `type`.
HasTyped(dict, key, type) == key \in DOMAIN dict /\ dict[key].type = type
\* The integer part of halves/2: the t with |t| <= |halves/2| < |t| + 1 and
\* the sign of halves.
IsIntegerPart(t, halves) ==
    /\ t * halves >= 0
    /\ LET at == IF t >= 0 THEN t ELSE -t
           ah == IF halves >= 0 THEN halves ELSE -halves
       IN 2 * at <= ah /\ ah < 2 * at + 2

C10_IdIsRowId ==
    /\ \A i \in 1..Len(pollEmitted) :
        \E r \in snap : r.inst = pollEmitted[i].row.inst /\ pollEmitted[i].n.id = r.rowid
    /\ \A i \in 1..Len(posts) :
        \E r \in snap : r.inst = posts[i].inst /\ posts[i].body.id = r.rowid

\* C10 witness: a row whose payload has a key "id" with another value than its
\* ROWID has been printed and posted.
C10_Witness ==
    /\ Len(posts) >= 1
    /\ \E r \in snap :
        /\ r.inst = posts[1].inst
        /\ get(r.data.value.d, "id") # None
        /\ Unwrap(get(r.data.value.d, "id")).n # r.rowid
        /\ posts[1].body.id = r.rowid

\* C11: when the database file does not exist, start returns an error without
\* entering the loop: no connection is opened, no query is made, last_rowid
\* stays None and nothing is printed or posted.
C11_StartupPrecondition ==
    ~fileExists
        => /\ pc \in {"new", "exit_err"}
           /\ last_rowid = None
           /\ prevW = None
           /\ max_rowid = None
           /\ snap = {}
           /\ ioError = "none"
           /\ emitted = <<>>
           /\ posts = <<>>

\* C11 witness: start has returned its error on a missing file.
C11_Witness == ~fileExists /\ pc = "exit_err" /\ last_rowid = None

\* The daemon is inside a poll: between opening the connection and the return
\* of check_for_new_notifications.
InPoll == pc \in {"max_query", "rows_query", "for", "forward", "hung"}

\* C12: within a poll the rows are decoded in strictly increasing ROWID order;
\* a row is decoded only when every row decoded before it in this poll has had
\* its POST come back (in webhook mode the POSTs are those of the rows printed,
\* in the same order, and at most the last one is outstanding); and a poll
\* begins only when the previous one has visited every row its query returned
\* and has no POST outstanding.
C12_OrderingNonOverlap ==
    /\ [](\A i, j \in 1..Len(pollEmitted) :
            i < j => pollEmitted[i].row.rowid < pollEmitted[j].row.rowid)
    /\ [](/\ Len(posts) = (IF webhook_url = None THEN 0
                           ELSE IF pc \in {"forward", "hung"} THEN Len(pollEmitted) - 1
                           ELSE Len(pollEmitted))
          /\ \A i \in 1..Len(posts) : posts[i].inst = pollEmitted[i].row.inst)
    /\ [][pollEmitted' # pollEmitted /\ pollEmitted' # <<>>
            => /\ pc = "for"
               /\ Len(posts) = (IF webhook_url = None THEN 0 ELSE Len(pollEmitted))
               /\ pollEmitted' = Append(pollEmitted, [row |-> new_records[idx],
                                                      n |-> Last(pollEmitted').n])]_vars
    /\ [][(~InPoll /\ InPoll')
            => /\ pc = "check"
               /\ notification = None
               /\ site # "none" => idx = Len(new_records) + 1
               /\ PollRows = DecodableReturned]_vars

\* C12 witness: in webhook mode the second row of a poll has been decoded and
\* its POST is outstanding, the first row's POST having come back.
C12_Witness ==
    /\ pc = "forward"
    /\ Len(pollEmitted) = 2
    /\ Len(posts) = 1
    /\ posts[1].inst = pollEmitted[1].row.inst
    /\ pollEmitted[1].row.rowid < pollEmitted[2].row.rowid

\* No row was ever deleted: the row the daemon found at its construction and
\* every row inserted since are in the table.
NoDeletion == \A i \in 0..nInserts : \E r \in record : r.inst = i
\* Every row was inserted with a ROWID above those then in the table, as the
\* storage engine assigns them.
AssignedByStore == \A r, o \in record : r.inst < o.inst => r.rowid < o.rowid
\* The set of rows this poll printed.
PollRowSet == {pollEmitted[i].row : i \in 1..Len(pollEmitted)}

EmittedInsts == {emitted[i].inst : i \in 1..Len(emitted)}
\* Row instance i has been returned by the running rows query and its turn of
\* the for loop has not ended yet.
Pending(i) ==
    /\ pc \in {"for", "forward", "hung"}
    /\ \E k \in idx..Len(new_records) : new_records[k].inst = i
\* Row r lies at or below the point from which the daemon will next read.
Behind(r) ==
    CASE pc \in {"check", "max_query", "sleep", "exit_err"} ->
            last_rowid # None /\ r.rowid <= Unwrap(last_rowid)
      [] pc = "rows_query" -> r.rowid <= Unwrap(arg_last_rowid)
      [] pc \in {"for", "forward", "hung"} -> r.rowid <= actual_max_rowid
      [] OTHER -> FALSE
\* Row instance i is lost: not printed, not about to be visited, and deleted
\* or behind the daemon's reading point.
Lost(i) ==
    /\ i \notin EmittedInsts
    /\ ~Pending(i)
    /\ \A r \in record : r.inst = i => Behind(r)

\* C14 (amended): a Shrink poll can lose any number of notifications: a lost
\* row instance stays lost in every step, so it is never printed; and at the
\* end of a Shrink poll every row the rows query found in the table that has
\* not been printed is lost, however many there are.
C14_ShrinkLosesAll ==
    /\ [][\A i \in 0..nInserts : Lost(i) => Lost(i)']_vars
    /\ []((PollDone /\ site = "shrink")
            => \A r \in snap : r.inst \in EmittedInsts \/ Lost(r.inst))

\* The decodable rows inserted since the previous poll's last query that this
\* poll found in the table and that are lost.
LostNew == {r \in NewSince : Decodable(r.data) /\ Lost(r.inst)}

\* C14 witness: a Shrink poll has ended with two decodable rows lost that were
\* inserted since the previous poll.
C14_Witness == PollDone /\ site = "shrink" /\ Cardinality(LostNew) = 2

\* C14 as stated: at the end of a Shrink poll at most one row found in the
\* table is lost.
C14_AtMostOneLost == (PollDone /\ site = "shrink") => Cardinality(LostNew) <= 1

\* C15 (amended): in a Shrink poll the rows query returns the rows it finds
\* above the maximum M read before, which are rows inserted between the two
\* queries; the decodable ones are printed and last_rowid ends at the last
\* returned row's ROWID. When the table does not change between the two
\* queries the rows query returns nothing, nothing is printed or posted and
\* last_rowid ends at M.
C15_ShrinkQuery ==
    (PollDone /\ site = "shrink")
        => /\ new_records = OrderAsc({r \in snap : r.rowid > Unwrap(max_rowid)})
           /\ PollRows = DecodableReturned
           /\ last_rowid = Some(IF new_records = <<>> THEN Unwrap(max_rowid)
                                ELSE Last(new_records).rowid)
           /\ ~midPollChange
                => /\ new_records = <<>>
                   /\ pollEmitted = <<>>
                   /\ posts = <<>>
                   /\ last_rowid = max_rowid

\* C15 witness: a Shrink poll has printed a row inserted between its two
\* queries and left last_rowid above the maximum it read.
C15_Witness ==
    /\ PollDone
    /\ site = "shrink"
    /\ Len(pollEmitted) = 1
    /\ last_rowid = Some(pollEmitted[1].row.rowid)
    /\ pollEmitted[1].row.rowid > Unwrap(max_rowid)

\* C15 as stated: every Shrink poll, whatever is written between its two
\* queries, gets no rows from its rows query, prints nothing and ends with
\* last_rowid = M.
C15_ShrinkReturnsNothing ==
    (PollDone /\ site = "shrink")
        => /\ new_records = <<>>
           /\ pollEmitted = <<>>
           /\ last_rowid = max_rowid

\* C16 as stated: the step that sets last_rowid from None to the maximum and
\* prints nothing is taken only by the first poll of the process.
C16_InitOnlyFirstPoll ==
    (PollDone /\ prevW = None /\ snap # {}) => ~polled

\* C17 as stated: in webhook mode every POST is over after a bounded time, so
\* the for loop takes its next turn after every POST it has begun.
C17_DeliveryBounded == (pc = "forward") ~> (pc = "for")

\* C18: a poll whose MAX(ROWID) query reads the value last_rowid holds prints
\* and posts nothing, leaves last_rowid as it is and makes no rows query,
\* whatever was deleted or inserted since the previous poll.
C18_NoChangePoll ==
    (PollDone /\ prevW # None /\ max_rowid = prevW)
        => /\ last_rowid = prevW
           /\ pollEmitted = <<>>
           /\ posts = <<>>
           /\ site = "none"
           /\ new_records = <<>>

\* C18 witness: such a poll has ended on a table that holds a decodable row
\* inserted since the previous poll.
C18_Witness ==
    /\ PollDone
    /\ prevW # None
    /\ max_rowid = prevW
    /\ site = "none"
    /\ \E r \in NewSince : Decodable(r.data)

\* C19 as stated: date is the integer part of the value at "date" when that
\* value is a real, the value itself when it is an integer, and 0 when the key
\* is absent or holds anything else.
C19_DateFromNumeric ==
    (dpc = "done" /\ ret.n # None)
        => LET d == arg_bytes.value.d
               n == Unwrap(ret.n)
           IN IF HasTyped(d, "date", "real") THEN IsIntegerPart(n.date, d["date"].n)
              ELSE IF HasTyped(d, "date", "integer") THEN n.date = d["date"].n
              ELSE n.date = 0

\* C20: when start has returned an error, the poll that failed (if any) has
\* left last_rowid as it found it and has printed and posted nothing; the
\* error came from opening the connection or from one of the two queries.
C20_FailedPollLeavesNoTrace ==
    pc = "exit_err"
        => /\ last_rowid = prevW
           /\ pollEmitted = <<>>
           /\ posts = <<>>
           /\ notification = None
           /\ fileExists => ioError \in {"open", "max", "rows"}

\* C20 witness: the rows query of a poll failed after an earlier poll had
\* printed a row; last_rowid is what that earlier poll left.
C20_Witness ==
    /\ pc = "exit_err"
    /\ ioError = "rows"
    /\ emitted # <<>>
    /\ last_rowid = Some(Last(emitted).rowid)
    /\ last_rowid = prevW

\* C21: at the end of every poll that returned Ok, every row the poll's last
\* query found in the table has a ROWID at or below last_rowid, whatever was
\* written between the poll's queries; and when the table did not change
\* between them, last_rowid is the largest ROWID that query found.
C21_WatermarkCoversStore ==
    (PollDone /\ snap # {})
        => /\ last_rowid # None
           /\ \A r \in snap : r.rowid <= Unwrap(last_rowid)
           /\ ~midPollChange => last_rowid = Some(MaxOf(RowIds(snap)))

\* C21 witness: a poll has ended whose rows query found a row inserted after
\* its MAX(ROWID) query, above the maximum read, beside another row;
\* last_rowid is that row's ROWID.
C21_Witness ==
    /\ PollDone
    /\ midPollChange
    /\ Cardinality(snap) >= 2
    /\ max_rowid # None
    /\ MaxOf(RowIds(snap)) > Unwrap(max_rowid)
    /\ last_rowid = Some(MaxOf(RowIds(snap)))

====
